---- MODULE Spec2Model ----
(***************************************************************************)
(* GGRoid: the droid-voice audio pipeline of GGRoidMessenger               *)
(* (applyDroidEffects, generateR2D2Personality, addDroidPersonality) and   *)
(* the send action that drives it.                                         *)
(*                                                                         *)
(* Number model.  A sample is an integer number of 1/FX units (FX = 32768, *)
(* the int16 -> float divisor), so the encoder's int16 value n is exactly  *)
(* the float n/32768.  Every arithmetic result is rounded to the nearest   *)
(* unit, which is what a store into a Float32Array does on its own finer   *)
(* grid.  The slider values volume, dutyCycle and exaggeration are exact   *)
(* fractions n/SD.  NaN is a value outside the finite range; every         *)
(* comparison with it is false, every arithmetic result on it is NaN.      *)
(* Math.sin is a rational approximation (Bhaskara I) that is exact at the  *)
(* multiples of a quarter turn.                                            *)
(***************************************************************************)
EXTENDS Integers, Sequences, FiniteSets, TLC

\* ------------------------------------------------------------------ bounds
MaxLen == 2          \* longest encoder waveform explored
MaxRate == 44        \* highest AudioContext sample rate explored (Hz)

\* ------------------------------------------------------- program constants
FX == 32768          \* floatWaveform[i] = waveform[i] / 32768.0
SD == 20             \* slider grid: steps of 0.05 (duty cycle) and 0.1

\* ------------------------------------------------------------------ state
VARIABLES
  controls,         \* the React state volume, dutyCycle, lfoRate, exaggeration, selectedEffect, addPersonality
  audioContextRef,  \* audioContextRef.current: [present, sampleRate]
  isPlayingRef,     \* isPlayingRef.current
  pc,               \* position of the running send: idle, converted, processed, mixed
  waveform,         \* the encoder's int16 output of the running send
  runSettings,      \* const settings = {...} of the running send
  heap,             \* the Float32Arrays allocated by the running send, by reference
  floatRef,         \* floatWaveform
  procRef,          \* processedWaveform
  plainOut,         \* what the plain-JS applyDroidEffects returns for floatWaveform
  viteOut,          \* what the Vite applyDroidEffects returns for floatWaveform
  alerted,          \* the send ended in its catch block (alert shown)
  prev,             \* history: waveform and output of the send before, kept while
                    \* the settings are the same and the same waveform is sent again next
  handler,          \* the handler that is running: none, sendMessage, saveAsWav
  ggwaveFactory,    \* typeof window.ggwave_factory === 'function'
  ggwaveInstanceRef,\* ggwaveInstanceRef.current: none, real, or an object whose encode
                    \* is the synthetic generator of sendMessage (beep) or saveAsWav (tone)
  encoder,          \* the latest handler started and how the encoder behaved in it
  pcmData,          \* the Int16Array saveAsWav quantised
  wavHeader,        \* the bytes createWavHeader returned to saveAsWav
  call,             \* a single call of one of the pure functions: its arguments and result
  receivedMessage,  \* the React state receivedMessage
  messageToSend,    \* const messageToSend of the latest send that got to encode
  r2d2AnimatedRef,  \* r2d2AnimatedRef.current
  r2d2Classes,      \* the r2d2 element carries the classes floating and glowing
  sounds,           \* the sources that were started and the 2 s timers animateR2D2 set
                    \* with them, while the source has not ended or the timer is pending
  downloads,        \* files saveAsWav has handed to the browser
  clicks,           \* clicks on the buttons so far
  tasks,            \* the calls of initAudio, sendMessage and saveAsWav that are under
                    \* way, each at one of its awaits
  initCalls,        \* calls of factory.init so far
  mount,            \* the mount effect: where setupAudio and loadScript stand, the
                    \* script tag, the 5 s timer, the backoff waits, the calls of initAudio
  ggroid_use_synthetic, \* localStorage item 'ggroid_use_synthetic' is 'true' (Vite variant)
  viteSend          \* the encode step of the latest send of the Vite variant: what its
                    \* encode calls answered, how many were made, what the waveform is

vars == <<controls, audioContextRef, isPlayingRef, pc, waveform, runSettings, heap,
          floatRef, procRef, plainOut, viteOut, alerted, prev, handler, ggwaveFactory,
          ggwaveInstanceRef, encoder, pcmData, wavHeader, call, receivedMessage,
          messageToSend, r2d2AnimatedRef, r2d2Classes, sounds, downloads, clicks,
          tasks, initCalls, mount, ggroid_use_synthetic, viteSend>>

runVars == <<pc, waveform, runSettings, heap, floatRef, procRef, plainOut, viteOut, handler>>

envVars == <<ggwaveFactory, ggwaveInstanceRef, encoder>>

saveVars == <<pcmData, wavHeader>>

\* the flags and counters of the component that the samples do not depend on
playVars == <<receivedMessage, messageToSend, r2d2AnimatedRef, r2d2Classes, sounds,
              downloads>>

\* the asynchronous calls under way
sessionVars == <<tasks, initCalls>>

\* the Vite variant's encode step
viteVars == <<ggroid_use_synthetic, viteSend>>

ctlVars == <<playVars, clicks, sessionVars, mount, viteVars>>

\* the samples of the running send or save and what is kept of earlier ones
audioVars == <<controls, runVars, prev, saveVars, call>>

\* ------------------------------------------------------------- arithmetic
NaN == -(2^30)

NegInfinity == -(2^30) - 1

IsNaN(x) == x = NaN

Abs(x) == IF x < 0 THEN -x ELSE x

Sgn(x) == IF x < 0 THEN -1 ELSE 1

\* n/d rounded to the nearest integer (ties away from zero), d > 0
RoundDiv(n, d) ==
  LET a == Abs(n)
      q == a \div d
      r == a % d
  IN  Sgn(n) * (IF 2 * r >= d THEN q + 1 ELSE q)

\* Math.floor(n/d) for n >= 0, d > 0
Floor(n, d) == n \div d

\* a * b on samples
FMul(a, b) == IF IsNaN(a) \/ IsNaN(b) THEN NaN ELSE RoundDiv(a * b, FX)

\* a / b on samples: 0/0 is NaN; a finite sample is never divided by zero
\* otherwise (the divisor is the peak of the buffer it comes from)
FDiv(a, b) ==
  IF IsNaN(a) \/ IsNaN(b) THEN NaN
  ELSE IF b = 0 THEN NaN
  ELSE Sgn(b) * RoundDiv(a * FX, Abs(b))

\* x * (n/d) for a decimal literal or a slider value n/d
Scale(x, n, d) == IF IsNaN(x) THEN NaN ELSE RoundDiv(x * n, d)

\* Math.abs
FAbs(x) == IF IsNaN(x) THEN NaN ELSE Abs(x)

\* a > b on samples (false when either is NaN)
FGt(a, b) == ~IsNaN(a) /\ ~IsNaN(b) /\ a > b

\* angular resolution of the sine: the units in half a turn
PH == 2^12

\* sin(pi * r / PH) for 0 <= r <= PH, in 1/FX units
SinHalf(r) ==
  LET hh == r * (PH - r)
  IN  RoundDiv(16 * hh, (5 * PH * PH - 4 * hh) \div FX)

\* Math.sin(2 * Math.PI * num / den), in 1/FX units; num >= 0, den > 0
Sin2Pi(num, den) ==
  LET k == num % den
      r == (2 * k * PH) \div den
  IN  IF r <= PH THEN SinHalf(r) ELSE -SinHalf(r - PH)


\* --------------------------------------------------------------- settings
EffectKinds ==
  {"normal", "blatt", "trill", "whistle", "scream", "happy", "sad", "question", "random"}

\* useState defaults: volume 0.5, dutyCycle 0.4, lfoRate 12, exaggeration 0.6,
\* effect "normal", addPersonality true
DefaultSettings ==
  [volume |-> 10, dutyCycle |-> 8, lfoRate |-> 12, exaggeration |-> 12,
   effect |-> "normal", addPersonality |-> TRUE]

NoContext == [present |-> FALSE, sampleRate |-> 0]

\* ------------------------------------------------------ applyDroidEffects
\* 0.8 + 0.2 * (0.5 + 0.5 * Math.sin(2 * Math.PI * settings.lfoRate * t)), t = i / sampleRate
BaseLfo(settings, i, sampleRate) ==
  RoundDiv(8 * FX, 10)
    + Scale(RoundDiv(5 * FX, 10) + Scale(Sin2Pi(settings.lfoRate * i, sampleRate), 5, 10), 2, 10)

\* Vibrato at full depth whatever the exaggeration
VibratoFixedDepth(depth, freq, settings, i, sampleRate) ==
  FX + Scale(Sin2Pi(freq * i, sampleRate), depth, 10)

\* 1.0 + depth/10 * settings.exaggeration * Math.sin(2 * Math.PI * freq * t)
Vibrato(depth, freq, settings, i, sampleRate) ==
  FX + Scale(Sin2Pi(freq * i, sampleRate), depth * settings.exaggeration, 10 * SD)

\* 0.8 + 0.5 * settings.exaggeration * ((Math.sin(2 * Math.PI * 30 * t) > 0) ? 1 : -0.5)
BlattLfo(settings, i, sampleRate) ==
  RoundDiv(8 * FX, 10)
    + Scale(IF Sin2Pi(30 * i, sampleRate) > 0 THEN FX ELSE -(FX \div 2),
            5 * settings.exaggeration, 10 * SD)

\* chaosLfo: three detuned sines multiplied, then scaled by the exaggeration
ScreamLfo(settings, i, sampleRate) ==
  LET c1 == RoundDiv(8 * FX, 10) + Scale(Sin2Pi(13 * i, sampleRate), 2, 10)
      c2 == RoundDiv(9 * FX, 10) + Scale(Sin2Pi(27 * i, sampleRate), 1, 10)
      c3 == RoundDiv(95 * FX, 100) + Scale(Sin2Pi(41 * i, sampleRate), 5, 100)
      chaos == FMul(FMul(FMul(FX, c1), c2), c3)
  IN  FX + Scale(chaos - FX, settings.exaggeration, SD)

\* 1.0 + 0.3 * settings.exaggeration * Math.sin(2 * Math.PI * (4 + 4 * (t / (len / sampleRate))) * t)
QuestionLfo(settings, i, len, sampleRate) ==
  FX + Scale(Sin2Pi((4 * len + 4 * i) * i, len * sampleRate),
             3 * settings.exaggeration, 10 * SD)

\* EffectLfo with a "random" arm that modulates like "trill"
EffectLfoRandomTrill(settings, i, len, sampleRate) ==
  CASE settings.effect = "blatt"    -> BlattLfo(settings, i, sampleRate)
    [] settings.effect = "trill"    -> Vibrato(5, 20, settings, i, sampleRate)
    [] settings.effect = "scream"   -> ScreamLfo(settings, i, sampleRate)
    [] settings.effect = "whistle"  -> Vibrato(3, 8, settings, i, sampleRate)
    [] settings.effect = "happy"    -> Vibrato(3, 6, settings, i, sampleRate)
    [] settings.effect = "sad"      -> Vibrato(4, 3, settings, i, sampleRate)
    [] settings.effect = "question" -> QuestionLfo(settings, i, len, sampleRate)
    [] settings.effect = "random"   -> Vibrato(5, 20, [settings EXCEPT !.exaggeration = SD], i, sampleRate)
    [] OTHER                        -> FX

\* the if / else-if chain on settings.effect: the factor lfo is multiplied by
\* ("normal", "random" and any other kind take no branch)
EffectLfo(settings, i, len, sampleRate) ==
  CASE settings.effect = "blatt"    -> BlattLfo(settings, i, sampleRate)
    [] settings.effect = "trill"    -> Vibrato(5, 20, settings, i, sampleRate)
    [] settings.effect = "scream"   -> ScreamLfo(settings, i, sampleRate)
    [] settings.effect = "whistle"  -> Vibrato(3, 8, settings, i, sampleRate)
    [] settings.effect = "happy"    -> Vibrato(3, 6, settings, i, sampleRate)
    [] settings.effect = "sad"      -> Vibrato(4, 3, settings, i, sampleRate)
    [] settings.effect = "question" -> QuestionLfo(settings, i, len, sampleRate)
    [] OTHER                        -> FX

\* lfo after the effect-specific modulation (lfo *= ...)
Lfo(settings, i, len, sampleRate) ==
  FMul(BaseLfo(settings, i, sampleRate), EffectLfo(settings, i, len, sampleRate))

\* signal / duty: only 0 / 0 can divide by zero here, because a non-zero
\* signal with duty = 0 takes the 1.0 or -1.0 arm
DivDuty(signal, duty) ==
  IF duty = 0 THEN NaN ELSE Sgn(duty) * RoundDiv(signal * SD, Abs(duty))

\* DutyShape whose negative arm tests signal < duty
DutyShapeNegativeClipped(signal, duty) ==
  IF signal > 0
  THEN (IF signal * SD > duty * FX THEN FX ELSE DivDuty(signal, duty))
  ELSE (IF signal * SD < duty * FX THEN -FX ELSE DivDuty(signal, duty))

\* Duty cycle effect
DutyShape(signal, duty) ==
  IF signal > 0
  THEN (IF signal * SD > duty * FX THEN FX ELSE DivDuty(signal, duty))
  ELSE (IF signal * SD < -(duty * FX) THEN -FX ELSE DivDuty(signal, duty))

\* Modulate into a buffer one sample short
ModulateShort(buffer, settings, sampleRate) ==
  [j \in 1..(Len(buffer) - 1) |->
     FMul(DutyShape(buffer[j], settings.dutyCycle),
          Lfo(settings, j - 1, Len(buffer), sampleRate))]

\* the first loop: processedBuffer[i] = signal * lfo
Modulate(buffer, settings, sampleRate) ==
  [j \in 1..Len(buffer) |->
     FMul(DutyShape(buffer[j], settings.dutyCycle),
          Lfo(settings, j - 1, Len(buffer), sampleRate))]

\* the largest element of a non-empty set of numbers
Largest(S) == CHOOSE m \in S : \A x \in S : x <= m

\* MaxAmp without Math.abs: the largest signed sample
MaxAmpSigned(buf) ==
  Largest({0} \cup {buf[j] : j \in {k \in 1..Len(buf) : FGt(buf[k], 0)}})

\* let maxAmp = 0; for (...) { if (absVal > maxAmp) maxAmp = absVal }: what the
\* loop leaves in maxAmp is the largest absVal that compared greater, so the
\* largest one above 0 (NaN never compares greater), and 0 when there is none
MaxAmp(buf) ==
  Largest({0} \cup {FAbs(buf[j]) : j \in {k \in 1..Len(buf) : FGt(FAbs(buf[k]), 0)}})

\* GuardMaxAmp without the guard
GuardMaxAmpNone(maxAmp) == maxAmp

\* if (maxAmp <= 0.0001) maxAmp = 1.0
GuardMaxAmp(maxAmp) ==
  IF ~IsNaN(maxAmp) /\ maxAmp * 10000 <= FX THEN FX ELSE maxAmp

\* processedBuffer[i] = (processedBuffer[i] / maxAmp) * settings.volume
Normalize(buf, maxAmp, settings) ==
  [j \in 1..Len(buf) |-> Scale(FDiv(buf[j], maxAmp), settings.volume, SD)]

\* applyDroidEffects that skips the processing while a sound is playing
applyDroidEffectsWhilePlaying(buffer, settings, ctx) ==
  IF ~ctx.present \/ isPlayingRef THEN buffer
  ELSE LET processed == Modulate(buffer, settings, ctx.sampleRate)
       IN  Normalize(processed, GuardMaxAmp(MaxAmp(processed)), settings)

\* Next.js component (GGRoidMessenger.tsx)
applyDroidEffects(buffer, settings, ctx) ==
  IF ~ctx.present THEN buffer
  ELSE LET processed == Modulate(buffer, settings, ctx.sampleRate)
       IN  Normalize(processed, GuardMaxAmp(MaxAmp(processed)), settings)

\* EffectsThrow with an empty buffer rejected as an error
EffectsThrowOnEmpty(buffer, settings, ctx) == Len(buffer) = 0

\* applyDroidEffects has no throw statement and no call that can throw on a
\* Float32Array and a settings object: it raises for no input
EffectsThrow(buffer, settings, ctx) == FALSE

\* Vite component: the same function; its "question" arm re-tests the context
\* and reads sampleRate || 48000, which is the context's rate when it is set
applyDroidEffectsVite(buffer, settings, ctx) ==
  IF ~ctx.present THEN buffer
  ELSE LET processed == Modulate(buffer, settings, ctx.sampleRate)
       IN  Normalize(processed, GuardMaxAmp(MaxAmp(processed)), settings)

\* Math.max(...processedBuffer.map(Math.abs)): -Infinity for no arguments,
\* NaN as soon as one argument is NaN
MathMaxAbs(buf) ==
  IF \E j \in 1..Len(buf) : IsNaN(buf[j]) THEN NaN
  ELSE Largest({NegInfinity} \cup {FAbs(buf[j]) : j \in 1..Len(buf)})

\* plain-JS variant: no context test and no guard on maxAmp
applyDroidEffectsPlain(buffer, settings, ctx) ==
  LET processed == Modulate(buffer, settings, ctx.sampleRate)
  IN  Normalize(processed, MathMaxAbs(processed), settings)

\* ------------------------------------------------ generateR2D2Personality
\* resolution of instantFreq: units per Hz
FS == 2^6

\* baseFreq + modDepth * Math.sin(2 * Math.PI * modRate * t), in 1/FS Hz
InstantFreq(isIntro, i, sampleRate) ==
  LET baseFreq == IF isIntro THEN 800 ELSE 1200
      modDepth == IF isIntro THEN 400 ELSE 300
      modRate  == IF isIntro THEN 10 ELSE 5
  IN  baseFreq * FS + RoundDiv(modDepth * Sin2Pi(modRate * i, sampleRate), FX \div FS)

\* Math.sin(phase) > (isIntro ? -0.2 : 0.2) ? 1 : -1, phase = 2 * Math.PI * instantFreq * t
SquareSample(isIntro, i, sampleRate) ==
  LET sinPhase == Sin2Pi(InstantFreq(isIntro, i, sampleRate) * i, FS * sampleRate)
      threshold == IF isIntro THEN -2 * FX ELSE 2 * FX
  IN  IF 10 * sinPhase > threshold THEN FX ELSE -FX

\* FadeFrom without the fade-out line
RECURSIVE FadeFromInOnly(_, _, _)
FadeFromInOnly(buffer, i, fadeLen) ==
  IF i >= fadeLen THEN buffer
  ELSE FadeFromInOnly([buffer EXCEPT ![i + 1] = Scale(@, i, fadeLen)], i + 1, fadeLen)

\* the fade loop, from index i on:
\*   buffer[i] *= i / fadeLen; buffer[numSamples - 1 - i] *= i / fadeLen
RECURSIVE FadeFrom(_, _, _)
FadeFrom(buffer, i, fadeLen) ==
  IF i >= fadeLen THEN buffer
  ELSE LET n  == Len(buffer)
           b1 == [buffer EXCEPT ![i + 1] = Scale(@, i, fadeLen)]
           b2 == [b1 EXCEPT ![n - i] = Scale(@, i, fadeLen)]
       IN  FadeFrom(b2, i + 1, fadeLen)

\* duration is given in tenths of a second (0.5 -> 5, 0.3 -> 3)
generateR2D2Personality(isIntro, duration, ctx) ==
  IF ~ctx.present THEN <<>>
  ELSE LET sampleRate == ctx.sampleRate
           numSamples == Floor(duration * sampleRate, 10)
           buffer == [j \in 1..numSamples |-> SquareSample(isIntro, j - 1, sampleRate)]
           fadeLen == Floor(5 * numSamples, 100)
       IN  FadeFrom(buffer, 0, fadeLen)

\* ---------------------------------------------------- addDroidPersonality
\* PauseSamples rounded up instead of down
PauseSamplesCeil(sampleRate) == (1 * sampleRate + 9) \div 10

\* Math.floor(pauseDuration * sampleRate), pauseDuration = 0.1
PauseSamples(sampleRate) == Floor(1 * sampleRate, 10)

\* MixBuffer with the payload multiplied by volume like the intro and the outro
MixBufferPayloadScaled(introBuffer, buffer, outroBuffer, pauseSamples, volume) ==
  LET totalLength == Len(introBuffer) + pauseSamples + Len(buffer)
                       + pauseSamples + Len(outroBuffer)
      offset      == Len(introBuffer) + pauseSamples
      outroOffset == offset + Len(buffer) + pauseSamples
  IN  [k \in 1..totalLength |->
         IF k > outroOffset /\ k <= outroOffset + Len(outroBuffer)
           THEN Scale(outroBuffer[k - outroOffset], volume, SD)
         ELSE IF k > offset /\ k <= offset + Len(buffer)
           THEN Scale(buffer[k - offset], volume, SD)
         ELSE IF k <= Len(introBuffer)
           THEN Scale(introBuffer[k], volume, SD)
         ELSE 0]

\* newBuffer after the three copy loops (a later loop overwrites an earlier one)
MixBuffer(introBuffer, buffer, outroBuffer, pauseSamples, volume) ==
  LET totalLength == Len(introBuffer) + pauseSamples + Len(buffer)
                       + pauseSamples + Len(outroBuffer)
      offset      == Len(introBuffer) + pauseSamples
      outroOffset == offset + Len(buffer) + pauseSamples
  IN  [k \in 1..totalLength |->
         IF k > outroOffset /\ k <= outroOffset + Len(outroBuffer)
           THEN Scale(outroBuffer[k - outroOffset], volume, SD)
         ELSE IF k > offset /\ k <= offset + Len(buffer)
           THEN buffer[k - offset]
         ELSE IF k <= Len(introBuffer)
           THEN Scale(introBuffer[k], volume, SD)
         ELSE 0]

addDroidPersonality(buffer, settings, ctx) ==
  IF ~settings.addPersonality \/ ~ctx.present THEN buffer
  ELSE MixBuffer(generateR2D2Personality(TRUE, 5, ctx), buffer,
                 generateR2D2Personality(FALSE, 3, ctx),
                 PauseSamples(ctx.sampleRate), settings.volume)

\* ------------------------------------------------------- synthetic audio
\* Math.floor(val * 32767 * 0.8) stored into an Int16Array, val in 1/FX units
ToInt16(val) == (Scale(val, 8, 10) * 32767) \div FX

\* Math.floor(sampleRate * duration), duration = 1.0 + text.length * 0.1
SyntheticLength(textLen, sampleRate) == Floor(sampleRate * (10 + textLen), 10)

\* sendMessage's synthetic waveform (the beep generator and the final fallback):
\* baseFreq = 800 + 400 sin(2 pi 0.5 t), val = sin(2 pi baseFreq t),
\* val *= 0.7 where sin(2 pi 4 t) > 1.0 - 0.5
SyntheticBeep(textLen, sampleRate) ==
  [j \in 1..SyntheticLength(textLen, sampleRate) |->
     LET i == j - 1
         baseFreq == 800 * FS + RoundDiv(400 * Sin2Pi(i, 2 * sampleRate), FX \div FS)
         val == Sin2Pi(baseFreq * i, FS * sampleRate)
     IN  ToInt16(IF 2 * Sin2Pi(4 * i, sampleRate) > FX THEN Scale(val, 7, 10) ELSE val)]

\* saveAsWav's synthetic waveform: baseFreq = 1000 + 500 sin(2 pi 0.3 t),
\* val = sin(2 pi baseFreq t) * (0.8 + 0.2 sin(2 pi 8 t))
SyntheticTone(textLen, sampleRate) ==
  [j \in 1..SyntheticLength(textLen, sampleRate) |->
     LET i == j - 1
         baseFreq == 1000 * FS + RoundDiv(500 * Sin2Pi(3 * i, 10 * sampleRate), FX \div FS)
         val == Sin2Pi(baseFreq * i, FS * sampleRate)
         warble == RoundDiv(8 * FX, 10) + Scale(Sin2Pi(8 * i, sampleRate), 2, 10)
     IN  ToInt16(FMul(val, warble))]

\* ------------------------------------------------------------- WAV export
\* Quantise that rounds to the nearest integer
QuantiseRounded(x) ==
  IF IsNaN(x) THEN 0
  ELSE LET clamped == IF x > FX THEN FX ELSE IF x < -FX THEN -FX ELSE x
       IN  RoundDiv(clamped * 32767, FX)

\* Quantise without Math.min and Math.max
QuantiseUnclamped(x) ==
  IF IsNaN(x) THEN 0 ELSE Sgn(x) * ((Abs(x) * 32767) \div FX)

\* pcmData[i] = Math.min(1, Math.max(-1, x)) * 32767: the store into the
\* Int16Array drops the fraction (NaN is stored as 0)
Quantise(x) ==
  IF IsNaN(x) THEN 0
  ELSE LET clamped == IF x > FX THEN FX ELSE IF x < -FX THEN -FX ELSE x
       IN  Sgn(clamped) * ((Abs(clamped) * 32767) \div FX)

\* the loop over processedWaveform
QuantiseAll(buf) == [j \in 1..Len(buf) |-> Quantise(buf[j])]

\* writeString: one byte per character code
WriteString(tag) ==
  CASE tag = "RIFF" -> <<82, 73, 70, 70>>
    [] tag = "WAVE" -> <<87, 65, 86, 69>>
    [] tag = "fmt " -> <<102, 109, 116, 32>>
    [] tag = "data" -> <<100, 97, 116, 97>>

\* SetUint32 with the most significant byte first
SetUint32BigEndian(v) ==
  <<(v \div 16777216) % 256, (v \div 65536) % 256, (v \div 256) % 256, v % 256>>

\* view.setUint32(offset, v, true)
SetUint32(v) ==
  <<v % 256, (v \div 256) % 256, (v \div 65536) % 256, (v \div 16777216) % 256>>

\* view.setUint16(offset, v, true)
SetUint16(v) == <<v % 256, (v \div 256) % 256>>

createWavHeader(dataLength, numChannels, sampleRate, bitsPerSample) ==
  LET byteRate == (sampleRate * numChannels * bitsPerSample) \div 8
      blockAlign == (numChannels * bitsPerSample) \div 8
  IN  WriteString("RIFF") \o SetUint32(32 + dataLength * 2) \o WriteString("WAVE")
        \o WriteString("fmt ") \o SetUint32(16) \o SetUint16(1) \o SetUint16(numChannels)
        \o SetUint32(sampleRate) \o SetUint32(byteRate) \o SetUint16(blockAlign)
        \o SetUint16(bitsPerSample)
        \o WriteString("data") \o SetUint32(dataLength * 2)

\* ------------------------------------------------------------ the program
\* int16 values the encoder's waveform is built from
SampleValues == {0, 1, -16384, 32767}

\* encoder outputs: every waveform of at most MaxLen samples
Waveforms == UNION {[1..n -> SampleValues] : n \in 0..MaxLen}

\* AudioContext sample rates
SampleRates == {MaxRate}

\* slider positions explored (volume 0..1, dutyCycle 0.3..0.7, lfoRate 5..20,
\* exaggeration 0..1)
VolumeSteps == {2, 10}
DutySteps == {6, 8}
LfoSteps == {5, 12}
ExaggerationSteps == {0, 12}

NoRun == [set |-> FALSE, waveform |-> <<>>, out |-> <<>>]

NoCall == [fn |-> "none", done |-> FALSE, args |-> <<>>, result |-> <<>>]

\* the component after construction, its controls at c
Start(c) ==
  /\ controls = c
  /\ audioContextRef = NoContext
  /\ isPlayingRef = FALSE
  /\ pc = "idle"
  /\ waveform = <<>>
  /\ runSettings = DefaultSettings
  /\ heap = <<>>
  /\ floatRef = 0
  /\ procRef = 0
  /\ plainOut = <<>>
  /\ viteOut = <<>>
  /\ alerted = FALSE
  /\ prev = NoRun
  /\ handler = "none"
  /\ ggwaveFactory = FALSE
  /\ ggwaveInstanceRef = "none"
  /\ encoder = [handler |-> "none", outcome |-> "none"]
  /\ pcmData = <<>>
  /\ wavHeader = <<>>

\* clicks whose handlers can be under way at once; call 0 is the initAudio of
\* the mount, calls 1..MaxTasks are those of the clicks
MaxTasks == 2

\* a call that has not begun: the initAudio of the mount, or a click to come
NoTask == [kind |-> "none", pc |-> "idle", factoryAttempts |-> 0, waits |-> 0, got |-> FALSE]

\* the component before its mount effect has run
NoMount == [pc |-> "unmounted", script |-> "none", removed |-> FALSE,
            loadTimeout |-> "none", waitTime |-> 1000, attempts |-> 0, waits |-> <<>>,
            initAudioCalls |-> 0]

\* no send of the Vite variant has got to its encode step
NoViteSend == [answers |-> <<>>, placeholder |-> FALSE, stored |-> FALSE,
               encodeCalls |-> 0, waveform |-> "none"]

\* the flags after construction: useState(""), useRef(false), no sound started
CtlStart ==
  /\ receivedMessage = ""
  /\ messageToSend = ""
  /\ r2d2AnimatedRef = FALSE
  /\ r2d2Classes = FALSE
  /\ sounds = <<>>
  /\ downloads = 0
  /\ clicks = 0
  /\ tasks = [i \in 0..MaxTasks |-> NoTask]
  /\ initCalls = 0
  /\ mount = NoMount
  /\ ggroid_use_synthetic = FALSE
  /\ viteSend = NoViteSend

Init == Start(DefaultSettings) /\ call = NoCall /\ CtlStart

\* settings a caller of the pipeline can pass that no slider position gives:
\* a duty cycle of 0 or below
OutOfRangeSettings == {[DefaultSettings EXCEPT !.dutyCycle = d] : d \in {0, -2}}

InitAny == (\E c \in OutOfRangeSettings : Start(c)) /\ call = NoCall /\ CtlStart

\* the slider and select handlers
SetVolume(v) ==
  /\ pc = "idle"
  /\ controls' = [controls EXCEPT !.volume = v]
  /\ prev' = NoRun
  /\ UNCHANGED <<audioContextRef, isPlayingRef, runVars, alerted, envVars, saveVars, call>>

SetDutyCycle(d) ==
  /\ pc = "idle"
  /\ controls' = [controls EXCEPT !.dutyCycle = d]
  /\ prev' = NoRun
  /\ UNCHANGED <<audioContextRef, isPlayingRef, runVars, alerted, envVars, saveVars, call>>

SetLfoRate(r) ==
  /\ pc = "idle"
  /\ controls' = [controls EXCEPT !.lfoRate = r]
  /\ prev' = NoRun
  /\ UNCHANGED <<audioContextRef, isPlayingRef, runVars, alerted, envVars, saveVars, call>>

SetExaggeration(e) ==
  /\ pc = "idle"
  /\ controls' = [controls EXCEPT !.exaggeration = e]
  /\ prev' = NoRun
  /\ UNCHANGED <<audioContextRef, isPlayingRef, runVars, alerted, envVars, saveVars, call>>

SetSelectedEffect(k) ==
  /\ pc = "idle"
  /\ controls' = [controls EXCEPT !.effect = k]
  /\ prev' = NoRun
  /\ UNCHANGED <<audioContextRef, isPlayingRef, runVars, alerted, envVars, saveVars, call>>

SetAddPersonality ==
  /\ pc = "idle"
  /\ controls' = [controls EXCEPT !.addPersonality = ~@]
  /\ prev' = NoRun
  /\ UNCHANGED <<audioContextRef, isPlayingRef, runVars, alerted, envVars, saveVars, call>>

\* initAudio at mount: create the audio context if it doesn't exist
InitAudio(rate) ==
  /\ pc = "idle"
  /\ ~audioContextRef.present
  /\ audioContextRef' = [present |-> TRUE, sampleRate |-> rate]
  /\ UNCHANGED <<controls, isPlayingRef, runVars, alerted, prev, envVars, saveVars, call>>

\* floatWaveform[i] = waveform[i] / 32768.0
ToFloat(w) == [j \in 1..Len(w) |-> w[j]]

\* what the encoder does during one send or save: the script does not load;
\* every factory call (or, in saveAsWav, every init) fails; no encode function
\* is found anywhere; every encode call throws; encode returns a waveform; or
\* the encode found is a synthetic generator an earlier run installed
EncoderOutcomes ==
  {"noScript", "noFactory", "noEncode", "encodeThrows", "encoded", "installed"}

\* the outcomes that can follow what earlier runs left in window.ggwave_factory
\* and ggwaveInstanceRef
Possible(outcome) ==
  CASE outcome = "noScript" -> ~ggwaveFactory
    [] outcome \in {"noFactory", "noEncode"} -> ggwaveInstanceRef = "none"
    [] outcome \in {"encodeThrows", "encoded"} -> ggwaveInstanceRef \in {"none", "real"}
    [] outcome = "installed" -> ggwaveInstanceRef \in {"beep", "tone"}

\* if (!audioContextRef.current) audioContextRef.current = new AudioContext()
EnsureContext(ctx, rate) ==
  IF ctx.present THEN ctx ELSE [present |-> TRUE, sampleRate |-> rate]

\* the waveform a handler gets: the encoder's w, or the synthetic audio of the
\* generator that stands in for it
Encode(outcome, w, textLen, sampleRate, fallback) ==
  CASE outcome = "encoded" -> w
    [] outcome = "installed" /\ ggwaveInstanceRef = "beep" -> SyntheticBeep(textLen, sampleRate)
    [] outcome = "installed" /\ ggwaveInstanceRef = "tone" -> SyntheticTone(textLen, sampleRate)
    [] OTHER -> IF fallback = "beep" THEN SyntheticBeep(textLen, sampleRate)
                ELSE SyntheticTone(textLen, sampleRate)

\* ggwaveInstanceRef.current after the encode function was looked up
InstanceAfter(outcome, fallback) ==
  CASE outcome = "noEncode" -> fallback
    [] outcome \in {"encodeThrows", "encoded"} -> "real"
    [] OTHER -> ggwaveInstanceRef

\* a handler up to "Convert to Float32Array": the script is loaded, the audio
\* context and the encoder instance are created if missing, the settings are
\* captured and the text is encoded; an alert and a return where that fails
Begin(name, fallback, outcome, w, textLen, rate) ==
  /\ pc = "idle"
  /\ Possible(outcome)
  /\ encoder' = [handler |-> name, outcome |-> outcome]
  /\ ggwaveFactory' = (outcome # "noScript")
  /\ audioContextRef' = IF outcome = "noScript" THEN audioContextRef
                        ELSE EnsureContext(audioContextRef, rate)
  /\ IF outcome \in {"noScript", "noFactory"}
     THEN /\ alerted' = TRUE
          /\ UNCHANGED <<runVars, ggwaveInstanceRef, prev>>
     ELSE /\ waveform' = Encode(outcome, w, textLen, audioContextRef'.sampleRate, fallback)
          /\ ggwaveInstanceRef' = InstanceAfter(outcome, fallback)
          /\ runSettings' = controls
          /\ heap' = <<ToFloat(waveform')>>
          /\ floatRef' = 1
          /\ procRef' = 0
          /\ pc' = "converted"
          /\ handler' = name
          /\ prev' = IF name = "sendMessage" /\ prev.set /\ prev.waveform = waveform'
                     THEN prev ELSE NoRun
          /\ alerted' = FALSE
          /\ UNCHANGED <<plainOut, viteOut>>
  /\ UNCHANGED <<controls, isPlayingRef, saveVars, call>>

SendMessage(outcome, w, textLen, rate) ==
  Begin("sendMessage", "beep", outcome, w, textLen, rate)

SaveAsWav(outcome, w, textLen, rate) ==
  Begin("saveAsWav", "tone", outcome, w, textLen, rate)

\* EffectsTarget processing in place: const processedBuffer = buffer
EffectsTargetInPlace(h, ref) == ref

\* where applyDroidEffects writes: const processedBuffer = new Float32Array(buffer.length)
EffectsTarget(h, ref) == Len(h) + 1

\* the heap after a function wrote buffer `out` at reference `target`
Store(h, target, out) ==
  IF target = Len(h) + 1 THEN Append(h, out) ELSE [h EXCEPT ![target] = out]

\* the send's locals after its catch block ran: console.error, alert, return
Caught ==
  /\ pc' = "idle"
  /\ alerted' = TRUE
  /\ waveform' = <<>>
  /\ runSettings' = DefaultSettings
  /\ heap' = <<>>
  /\ floatRef' = 0
  /\ procRef' = 0
  /\ plainOut' = <<>>
  /\ viteOut' = <<>>
  /\ prev' = NoRun
  /\ handler' = "none"

\* let processedWaveform = applyDroidEffects(floatWaveform, settings)
ApplyEffects ==
  /\ pc = "converted"
  /\ IF EffectsThrow(heap[floatRef], runSettings, audioContextRef)
     THEN Caught
     ELSE LET out == applyDroidEffects(heap[floatRef], runSettings, audioContextRef)
              target == IF audioContextRef.present
                        THEN EffectsTarget(heap, floatRef) ELSE floatRef
          IN  /\ heap' = (IF audioContextRef.present THEN Store(heap, target, out) ELSE heap)
              /\ procRef' = target
              /\ plainOut' = applyDroidEffectsPlain(heap[floatRef], runSettings, audioContextRef)
              /\ viteOut' = applyDroidEffectsVite(heap[floatRef], runSettings, audioContextRef)
              /\ pc' = "processed"
              /\ UNCHANGED <<waveform, runSettings, floatRef, alerted, prev, handler>>
  /\ UNCHANGED <<controls, audioContextRef, isPlayingRef, envVars, saveVars, call>>

\* where addDroidPersonality writes: const newBuffer = new Float32Array(totalLength)
PersonalityTarget(h, ref) == Len(h) + 1

\* if (settings.addPersonality) processedWaveform = addDroidPersonality(processedWaveform, settings)
AddPersonality ==
  /\ pc = "processed"
  /\ IF runSettings.addPersonality
     THEN LET out == addDroidPersonality(heap[procRef], runSettings, audioContextRef)
              target == IF audioContextRef.present
                        THEN PersonalityTarget(heap, procRef) ELSE procRef
          IN  /\ heap' = (IF audioContextRef.present THEN Store(heap, target, out) ELSE heap)
              /\ procRef' = target
     ELSE UNCHANGED <<heap, procRef>>
  /\ pc' = "mixed"
  /\ UNCHANGED <<controls, audioContextRef, isPlayingRef, waveform, runSettings, floatRef,
                 plainOut, viteOut, alerted, prev, handler, envVars, saveVars, call>>

\* SinkInput taking the samples from before the effects
SinkInputUnprocessed(h, fRef, pRef) == h[fRef]

\* the samples handed on after the pipeline: processedWaveform
SinkInput(h, fRef, pRef) == h[pRef]

\* buffer.getChannelData(0).set(processedWaveform); isPlayingRef.current = true; source.start()
Play ==
  /\ pc = "mixed"
  /\ handler = "sendMessage"
  /\ isPlayingRef' = TRUE
  /\ prev' = [set |-> TRUE, waveform |-> waveform, out |-> SinkInput(heap, floatRef, procRef)]
  /\ pc' = "idle"
  /\ handler' = "none"
  /\ waveform' = <<>>
  /\ heap' = <<>>
  /\ floatRef' = 0
  /\ procRef' = 0
  /\ plainOut' = <<>>
  /\ viteOut' = <<>>
  /\ runSettings' = DefaultSettings
  /\ UNCHANGED <<controls, audioContextRef, alerted, envVars, saveVars, call>>

\* saveAsWav: Convert to 16-bit PCM; Create WAV header
EncodeWav ==
  /\ pc = "mixed"
  /\ handler = "saveAsWav"
  /\ pcmData' = QuantiseAll(SinkInput(heap, floatRef, procRef))
  /\ wavHeader' = createWavHeader(Len(pcmData'), 1, audioContextRef.sampleRate, 16)
  /\ pc' = "encoded"
  /\ UNCHANGED <<controls, audioContextRef, isPlayingRef, waveform, runSettings, heap,
                 floatRef, procRef, plainOut, viteOut, alerted, prev, handler, envVars, call>>

\* saveAsWav: new Blob([wavHeader, pcmData]); a.click()
Download ==
  /\ pc = "encoded"
  /\ pc' = "idle"
  /\ handler' = "none"
  /\ waveform' = <<>>
  /\ heap' = <<>>
  /\ floatRef' = 0
  /\ procRef' = 0
  /\ plainOut' = <<>>
  /\ viteOut' = <<>>
  /\ runSettings' = DefaultSettings
  /\ pcmData' = <<>>
  /\ wavHeader' = <<>>
  /\ UNCHANGED <<controls, audioContextRef, isPlayingRef, alerted, prev, envVars, call>>

\* source.onended
OnEnded ==
  /\ pc = "idle"
  /\ isPlayingRef
  /\ isPlayingRef' = FALSE
  /\ UNCHANGED <<controls, audioContextRef, runVars, alerted, prev, envVars, saveVars, call>>

Next ==
  /\ UNCHANGED ctlVars
  /\ \/ \E v \in VolumeSteps : SetVolume(v)
     \/ \E d \in DutySteps : SetDutyCycle(d)
     \/ \E r \in LfoSteps : SetLfoRate(r)
     \/ \E e \in ExaggerationSteps : SetExaggeration(e)
     \/ \E k \in EffectKinds : SetSelectedEffect(k)
     \/ SetAddPersonality
     \/ \E rate \in SampleRates : InitAudio(rate)
     \/ \E w \in Waveforms, rate \in SampleRates : SendMessage("encoded", w, 0, rate)
     \/ \E w \in Waveforms, rate \in SampleRates : SaveAsWav("encoded", w, 0, rate)
     \/ ApplyEffects
     \/ AddPersonality
     \/ Play
     \/ EncodeWav
     \/ Download
     \/ OnEnded

\* the program with an encoder that returns a waveform for every text
Spec == Init /\ [][Next]_vars

\* lengths of the text that is sent or saved
TextLengths == {0, 3}

\* the program with every behaviour of the encoder; of the controls only the
\* volume, the effect and the personality switch are used
NextEncoder ==
  /\ UNCHANGED ctlVars
  /\ \/ \E v \in VolumeSteps : SetVolume(v)
     \/ \E k \in EffectKinds : SetSelectedEffect(k)
     \/ SetAddPersonality
     \/ \E w \in Waveforms, rate \in SampleRates : SendMessage("encoded", w, 0, rate)
     \/ \E o \in EncoderOutcomes \ {"encoded"}, n \in TextLengths, rate \in SampleRates :
          SendMessage(o, <<>>, n, rate)
     \/ \E w \in Waveforms, rate \in SampleRates : SaveAsWav("encoded", w, 0, rate)
     \/ \E o \in EncoderOutcomes \ {"encoded"}, n \in TextLengths, rate \in SampleRates :
          SaveAsWav(o, <<>>, n, rate)
     \/ ApplyEffects
     \/ AddPersonality
     \/ Play
     \/ EncodeWav
     \/ Download
     \/ OnEnded

SpecEncoder == Init /\ [][NextEncoder]_vars

\* a volume no slider position gives: 1.5
LoudSettings == [DefaultSettings EXCEPT !.volume = 30]

InitLoud == Start(LoudSettings) /\ call = NoCall /\ CtlStart

\* the same program, started with the volume above 1
SpecLoud == InitLoud /\ [][NextEncoder]_vars

\* ------------------------------------------------ the functions on their own
\* createWavHeader(dataLength, 1, sampleRate, 16) as saveAsWav calls it
WavLengths == {0, 1, 1000, 65536}
WavRates == {8000, 44100, 48000, 96000}

\* float samples handed to the quantisation, in 1/FX units: in range, at the
\* limits, out of range (1.5 is 49152) and NaN
QuantiseInputs ==
  {NaN, -2 * FX, -FX - 1, -FX, -FX + 1, -16384, -3, -1, 0, 1, 3, 16384,
   FX - 1, FX, FX + 1, 49152}

\* samples in [-1, 1] and duty cycles in (0, 1) for the waveshaper
ShaperSamples == {k * 2048 : k \in -16..16} \cup {-13108, -13107, -1, 1, 13107, 13108}
ShaperDuties == {1, 6, 8, 10, 14, 19}

\* sample rates for generateR2D2Personality, scaled down from the rates an
\* AudioContext has; like those they give every sound at least 20 samples
PersonalityRates == {80, 100, 134, 200}

BenchCalls ==
  [fn : {"createWavHeader"}, done : {FALSE},
   args : {<<n, 1, r, 16>> : n \in WavLengths, r \in WavRates}, result : {<<>>}]
  \cup [fn : {"quantise"}, done : {FALSE},
         args : {<<x>> : x \in QuantiseInputs}, result : {<<>>}]
  \cup [fn : {"dutyCycle"}, done : {FALSE},
         args : {<<x, d>> : x \in ShaperSamples, d \in ShaperDuties}, result : {<<>>}]
  \cup [fn : {"generateR2D2Personality"}, done : {FALSE},
         args : {<<b, d, r>> : b \in {0, 1}, d \in {3, 5}, r \in PersonalityRates},
         result : {<<>>}]

InitBench == Start(DefaultSettings) /\ call \in BenchCalls /\ CtlStart

\* the call returns
Return(fn, result) ==
  /\ call.fn = fn
  /\ ~call.done
  /\ call' = [call EXCEPT !.done = TRUE, !.result = result]
  /\ UNCHANGED <<controls, audioContextRef, isPlayingRef, runVars, alerted, prev,
                 envVars, saveVars>>

CallCreateWavHeader ==
  Return("createWavHeader",
         createWavHeader(call.args[1], call.args[2], call.args[3], call.args[4]))

CallQuantise == Return("quantise", <<Quantise(call.args[1])>>)

CallDutyShape == Return("dutyCycle", <<DutyShape(call.args[1], call.args[2])>>)

CallGenerateR2D2Personality ==
  Return("generateR2D2Personality",
         generateR2D2Personality(call.args[1] = 1, call.args[2],
                                 [present |-> TRUE, sampleRate |-> call.args[3]]))

NextBench ==
  /\ UNCHANGED ctlVars
  /\ \/ CallCreateWavHeader
     \/ CallQuantise
     \/ CallDutyShape
     \/ CallGenerateR2D2Personality

SpecBench == InitBench /\ [][NextBench]_vars

\* the same program, started with out-of-range settings
SpecAny == InitAny /\ [][Next]_vars

\* ------------------------------------------------ the flags of the component
\* What a click does to the flags of the component.  The samples it plays or
\* saves are those of the steps above; here a sound is only a source that ends
\* before (short) or after (long) the 2 s timer that was set when it started.

\* clicks explored
MaxClicks == 3

\* the text of the Test Sound button, and texts the user can type
TestMessage == "Test... test... test..."
Messages == {"hi", "yo"}

\* const messageToSend = testMessage || message; "" stands for no argument
MessageToSend(testMessage, message) ==
  IF testMessage # "" THEN testMessage ELSE message

\* animateR2D2: if (r2d2AnimatedRef.current) return; r2d2AnimatedRef.current = true;
\* classList.add('floating', 'glowing'); setTimeout(..., 2000)
animateR2D2(animated, classes) ==
  IF animated THEN [animated |-> TRUE, classes |-> classes, timer |-> "none"]
  ELSE [animated |-> TRUE, classes |-> TRUE, timer |-> "pending"]

\* a source that ended and whose timer is not pending leaves no trace
Live(ss) == SelectSeq(ss, LAMBDA x : ~x.ended \/ x.timer = "pending")

\* ReceivedAfter that shows the text of a test as well
ReceivedAfterAlways(testMessage, text, received) == text

\* if (!testMessage) setReceivedMessage(messageToSend)
ReceivedAfter(testMessage, text, received) ==
  IF testMessage = "" THEN text ELSE received

\* OnLoadFailure that creates the audio context before it returns
OnLoadFailureWithContext(ctx, rate) == EnsureContext(ctx, rate)

\* if (!scriptLoaded) { alert(...); return }: the audio context is left as it is
OnLoadFailure(ctx, rate) == ctx

\* sendMessage(testMessage): the script and the encoder are obtained as in
\* Begin; then, in one synchronous block, the text is encoded and processed,
\* isPlayingRef is set, the source is started, animateR2D2 is called and the
\* received message is set; an error anywhere ends in the alert of the catch
ClickSend(testMessage, message, outcome, long, startThrows, rate) ==
  /\ clicks < MaxClicks
  /\ clicks' = clicks + 1
  /\ Possible(outcome)
  /\ encoder' = [handler |-> "sendMessage", outcome |-> outcome]
  /\ ggwaveFactory' = (outcome # "noScript")
  /\ audioContextRef' = IF outcome = "noScript" THEN OnLoadFailure(audioContextRef, rate)
                        ELSE EnsureContext(audioContextRef, rate)
  /\ IF outcome \in {"noScript", "noFactory"}
     THEN /\ alerted' = TRUE
          /\ UNCHANGED <<ggwaveInstanceRef, isPlayingRef, receivedMessage, messageToSend,
                         r2d2AnimatedRef, r2d2Classes, sounds>>
     ELSE /\ ggwaveInstanceRef' = InstanceAfter(outcome, "beep")
          /\ messageToSend' = MessageToSend(testMessage, message)
          /\ isPlayingRef' = TRUE
          /\ IF startThrows
             THEN /\ alerted' = TRUE
                  /\ UNCHANGED <<receivedMessage, r2d2AnimatedRef, r2d2Classes, sounds>>
             ELSE LET a == animateR2D2(r2d2AnimatedRef, r2d2Classes)
                  IN  /\ alerted' = FALSE
                      /\ r2d2AnimatedRef' = a.animated
                      /\ r2d2Classes' = a.classes
                      /\ sounds' = Append(sounds, [long |-> long, ended |-> FALSE,
                                                   timer |-> a.timer])
                      /\ receivedMessage' =
                           ReceivedAfter(testMessage, messageToSend', receivedMessage)
  /\ UNCHANGED <<audioVars, downloads>>

\* saveAsWav: the script and the encoder are obtained as in Begin, the text is
\* encoded, processed and quantised, and the file is handed to the browser
ClickSave(outcome, rate) ==
  /\ clicks < MaxClicks
  /\ clicks' = clicks + 1
  /\ Possible(outcome)
  /\ encoder' = [handler |-> "saveAsWav", outcome |-> outcome]
  /\ ggwaveFactory' = (outcome # "noScript")
  /\ audioContextRef' = IF outcome = "noScript" THEN OnLoadFailure(audioContextRef, rate)
                        ELSE EnsureContext(audioContextRef, rate)
  /\ IF outcome \in {"noScript", "noFactory"}
     THEN /\ alerted' = TRUE
          /\ UNCHANGED <<ggwaveInstanceRef, downloads>>
     ELSE /\ ggwaveInstanceRef' = InstanceAfter(outcome, "tone")
          /\ alerted' = FALSE
          /\ downloads' = downloads + 1
  /\ UNCHANGED <<audioVars, isPlayingRef, receivedMessage, messageToSend, r2d2AnimatedRef,
                 r2d2Classes, sounds>>

\* source.onended = () => { isPlayingRef.current = false; r2d2AnimatedRef.current = false }
\* a long sound outlasts the timer that was set with it
SourceEnded(i) ==
  /\ i \in 1..Len(sounds)
  /\ ~sounds[i].ended
  /\ sounds[i].long => sounds[i].timer # "pending"
  /\ isPlayingRef' = FALSE
  /\ r2d2AnimatedRef' = FALSE
  /\ sounds' = Live([sounds EXCEPT ![i].ended = TRUE])
  /\ UNCHANGED <<audioVars, audioContextRef, alerted, envVars, receivedMessage,
                 messageToSend, r2d2Classes, downloads, clicks>>

\* the callback of setTimeout(..., 2000): if (!isPlayingRef.current) { remove the
\* classes; r2d2AnimatedRef.current = false }; a short sound has ended by then
ResetTimeout(i) ==
  /\ i \in 1..Len(sounds)
  /\ sounds[i].timer = "pending"
  /\ ~sounds[i].long => sounds[i].ended
  /\ IF ~isPlayingRef
     THEN r2d2Classes' = FALSE /\ r2d2AnimatedRef' = FALSE
     ELSE UNCHANGED <<r2d2Classes, r2d2AnimatedRef>>
  /\ sounds' = Live([sounds EXCEPT ![i].timer = "fired"])
  /\ UNCHANGED <<audioVars, audioContextRef, isPlayingRef, alerted, envVars,
                 receivedMessage, messageToSend, downloads, clicks>>

NextPlayback ==
  /\ UNCHANGED <<sessionVars, mount, viteVars>>
  /\ \/ \E t \in {"", TestMessage}, m \in Messages, o \in EncoderOutcomes, long \in BOOLEAN,
           startThrows \in BOOLEAN, rate \in SampleRates :
          ClickSend(t, m, o, long, startThrows, rate)
     \/ \E o \in EncoderOutcomes, rate \in SampleRates : ClickSave(o, rate)
     \/ \E i \in 1..MaxClicks : SourceEnded(i)
     \/ \E i \in 1..MaxClicks : ResetTimeout(i)

\* the component under clicks on its three buttons
SpecPlayback == Init /\ [][NextPlayback]_vars

\* every started source ends and every timer fires
FairPlayback ==
  /\ SpecPlayback
  /\ WF_vars(/\ \E i \in 1..MaxClicks : SourceEnded(i)
             /\ UNCHANGED <<sessionVars, mount, viteVars>>)
  /\ WF_vars(/\ \E i \in 1..MaxClicks : ResetTimeout(i)
             /\ UNCHANGED <<sessionVars, mount, viteVars>>)

\* ------------------------------------------------ obtaining the encoder
\* initAudio, sendMessage and saveAsWav up to the point where the encoder
\* instance is stored.  Each is an async function: a call runs to its next
\* await and other calls run in between.  What window.ggwave_factory() and the
\* script load answer is the environment's choice.

\* const maxFactoryAttempts = 3
maxFactoryAttempts == 3

\* answers of one call of window.ggwave_factory(): a factory, a rejection, or
\* a value that is not a factory
FactoryResults == {"ok", "throws", "null"}

\* positions at which a call is over
Finished == {"idle", "done", "failed"}

\* RetryWaits that waits after the last attempt as well
RetryWaitsAlways(attempts) == TRUE

\* if (factoryAttempts < maxFactoryAttempts) await new Promise(r => setTimeout(r, 500))
RetryWaits(attempts) == attempts < maxFactoryAttempts

\* after the factory is obtained sendMessage and initAudio call factory.init and
\* store the result whatever ggwaveInstanceRef holds by then; saveAsWav calls
\* it under while (!ggwaveInstanceRef.current && ...)
CreatesInstance(kind, instance) ==
  IF kind = "saveAsWav" THEN instance = "none" ELSE TRUE

\* from "if (!audioContextRef.current)" to the first await of the factory: the
\* audio context is created if missing, and the factory is called if no
\* instance is stored
BeginInstance(i, kind, rate) ==
  /\ audioContextRef' = EnsureContext(audioContextRef, rate)
  /\ tasks' = [tasks EXCEPT ![i] =
                 IF ggwaveInstanceRef = "none"
                 THEN [kind |-> kind, pc |-> "calling", factoryAttempts |-> 1,
                       waits |-> 0, got |-> FALSE]
                 ELSE [kind |-> kind, pc |-> "done", factoryAttempts |-> 0,
                       waits |-> 0, got |-> FALSE]]

\* a click on Send Message or Save as WAV: loadGGWaveScript returns true at
\* once when window.ggwave_factory is a function, and awaits the script if not
Click(i, kind, rate) ==
  /\ clicks < MaxClicks
  /\ clicks' = clicks + 1
  /\ i \in 1..MaxTasks
  /\ tasks[i].pc \in Finished
  /\ IF ggwaveFactory
     THEN BeginInstance(i, kind, rate)
     ELSE /\ tasks' = [tasks EXCEPT ![i] = [kind |-> kind, pc |-> "loading",
                                            factoryAttempts |-> 0, waits |-> 0,
                                            got |-> FALSE]]
          /\ UNCHANGED audioContextRef
  /\ UNCHANGED <<audioVars, isPlayingRef, alerted, envVars, playVars, initCalls>>

\* setupAudio calls initAudio, once: the audio context is created if missing;
\* with no instance stored it awaits the script if the factory is missing, and
\* the factory if not
CallInitAudio(rate) ==
  /\ tasks[0].pc = "idle"
  /\ IF ggwaveFactory \/ ggwaveInstanceRef # "none"
     THEN BeginInstance(0, "initAudio", rate)
     ELSE /\ audioContextRef' = EnsureContext(audioContextRef, rate)
          /\ tasks' = [tasks EXCEPT ![0] = [kind |-> "initAudio", pc |-> "loading",
                                            factoryAttempts |-> 0, waits |-> 0,
                                            got |-> FALSE]]
  /\ UNCHANGED <<audioVars, isPlayingRef, alerted, envVars, playVars, clicks, initCalls>>

\* the awaited script load is over: return typeof window.ggwave_factory === 'function'.
\* The handlers alert and return if it is not, and go on to the instance test
\* if it is; initAudio, which tested the instance before it waited, throws
\* into its catch or calls the factory
ScriptSettled(i, loaded, rate) ==
  /\ tasks[i].pc = "loading"
  /\ ggwaveFactory' = (ggwaveFactory \/ loaded)
  /\ IF ~ggwaveFactory'
     THEN /\ tasks' = [tasks EXCEPT ![i].pc = "failed"]
          /\ alerted' = (alerted \/ tasks[i].kind # "initAudio")
          /\ UNCHANGED audioContextRef
     ELSE /\ IF tasks[i].kind = "initAudio"
             THEN /\ tasks' = [tasks EXCEPT ![i].pc = "calling", ![i].factoryAttempts = 1]
                  /\ UNCHANGED audioContextRef
             ELSE BeginInstance(i, tasks[i].kind, rate)
          /\ UNCHANGED alerted
  /\ UNCHANGED <<audioVars, isPlayingRef, ggwaveInstanceRef, encoder, playVars, clicks,
                 initCalls>>

\* await window.ggwave_factory() is over.  With a factory: factory.init(params)
\* and ggwaveInstanceRef.current = its result.  Without one: sendMessage and
\* saveAsWav go round their loop again (after 500 ms if the call threw) while
\* factoryAttempts < maxFactoryAttempts and throw into the alert after that;
\* initAudio, which calls once, ends in its catch
FactoryReturns(i, result) ==
  /\ tasks[i].pc = "calling"
  /\ LET t == tasks[i]
         again == t.kind # "initAudio" /\ t.factoryAttempts < maxFactoryAttempts
     IN  CASE result = "ok" ->
                /\ tasks' = [tasks EXCEPT ![i].pc = "done", ![i].got = TRUE]
                /\ IF CreatesInstance(t.kind, ggwaveInstanceRef)
                   THEN initCalls' = initCalls + 1 /\ ggwaveInstanceRef' = "real"
                   ELSE UNCHANGED <<initCalls, ggwaveInstanceRef>>
                /\ UNCHANGED alerted
           [] result = "throws" /\ t.kind # "initAudio" /\ RetryWaits(t.factoryAttempts) ->
                /\ tasks' = [tasks EXCEPT ![i].pc = "waiting", ![i].waits = @ + 1]
                /\ UNCHANGED <<initCalls, ggwaveInstanceRef, alerted>>
           [] result = "null" /\ again ->
                /\ tasks' = [tasks EXCEPT ![i].factoryAttempts = @ + 1]
                /\ UNCHANGED <<initCalls, ggwaveInstanceRef, alerted>>
           [] OTHER ->
                /\ tasks' = [tasks EXCEPT ![i].pc = "failed"]
                /\ alerted' = (alerted \/ t.kind # "initAudio")
                /\ UNCHANGED <<initCalls, ggwaveInstanceRef>>
  /\ UNCHANGED <<audioVars, audioContextRef, isPlayingRef, ggwaveFactory, encoder,
                 playVars, clicks>>

\* the 500 ms are over: the loop tests its condition, counts the attempt and
\* calls window.ggwave_factory() again
RetryWaitOver(i) ==
  /\ tasks[i].pc = "waiting"
  /\ tasks' = [tasks EXCEPT ![i] =
                 IF @.factoryAttempts < maxFactoryAttempts
                 THEN [@ EXCEPT !.pc = "calling", !.factoryAttempts = @ + 1]
                 ELSE [@ EXCEPT !.pc = "failed"]]
  /\ alerted' = (alerted \/ tasks[i].factoryAttempts >= maxFactoryAttempts)
  /\ UNCHANGED <<audioVars, audioContextRef, isPlayingRef, envVars, playVars, clicks,
                 initCalls>>

NextSession ==
  /\ UNCHANGED <<mount, viteVars>>
  /\ \/ \E i \in 1..MaxTasks, kind \in {"sendMessage", "saveAsWav"}, rate \in SampleRates :
          Click(i, kind, rate)
     \/ \E rate \in SampleRates : CallInitAudio(rate)
     \/ \E i \in 0..MaxTasks, loaded \in BOOLEAN, rate \in SampleRates :
          ScriptSettled(i, loaded, rate)
     \/ \E i \in 0..MaxTasks, result \in FactoryResults : FactoryReturns(i, result)
     \/ \E i \in 1..MaxTasks : RetryWaitOver(i)

\* the component while its asynchronous calls interleave
SpecSession == Init /\ [][NextSession]_vars

\* ------------------------------------------------------- the mount effect
\* useEffect(() => { ... setupAudio() }, []): loadScript, the backoff, initAudio.
\* When the script loads or fails, and when it defines window.ggwave_factory,
\* is the environment's choice; the timers fire when their time is up.

\* const maxAttempts = 3
maxAttempts == 3

\* everything the mount effect leaves alone
mountFrame == <<audioVars, audioContextRef, isPlayingRef, alerted, ggwaveInstanceRef,
                encoder, playVars, clicks, sessionVars, viteVars>>

\* the promise of loadScript settles: setupAudio goes on to its backoff loop
Resolved(m) == IF m.pc = "loading" THEN [m EXCEPT !.pc = "backoff"] ELSE m

\* script.onerror that rejects the promise: setupAudio ends in its catch
OnErrorRejects(m) == IF m.pc = "loading" THEN [m EXCEPT !.pc = "caught"] ELSE m

\* script.onerror = () => { clearTimeout(loadTimeout); resolve() }
OnErrorSettles(m) == Resolved(m)

\* NextWait of initAudio's [1000, 2000, 3000]
NextWaitLinear(waitTime) == waitTime + 1000

\* waitTime *= 2
NextWait(waitTime) == waitTime * 2

\* clearTimeout(loadTimeout)
ClearTimeout(t) == IF t = "armed" THEN "cleared" ELSE t

\* new Promise(...): the script tag is appended and the 5 s timer is set
AppendScript(m) == [m EXCEPT !.pc = "loading", !.script = "pending", !.loadTimeout = "armed"]

\* a script tag of an earlier mount is in the document
EarlierScript ==
  /\ mount.pc = "unmounted"
  /\ mount.script = "none"
  /\ mount' = [mount EXCEPT !.script = "inDom"]
  /\ UNCHANGED <<mountFrame, ggwaveFactory>>

\* the script that is in the document defines window.ggwave_factory
FactoryAppears ==
  /\ mount.script \in {"inDom", "loaded"}
  /\ ~ggwaveFactory
  /\ ggwaveFactory' = TRUE
  /\ UNCHANGED <<mountFrame, mount>>

\* setupAudio() calls loadScript(): it returns at once if the factory is
\* there, waits 500 ms if the script tag is, and appends a script tag if not
MountEffect ==
  /\ mount.pc = "unmounted"
  /\ mount' = IF ggwaveFactory THEN [mount EXCEPT !.pc = "backoff"]
              ELSE IF mount.script = "inDom" THEN [mount EXCEPT !.pc = "settling"]
              ELSE AppendScript(mount)
  /\ UNCHANGED <<mountFrame, ggwaveFactory>>

\* the 500 ms are over: return if the factory is there, else
\* existingScript.remove() and a new script tag
Settled ==
  /\ mount.pc = "settling"
  /\ mount' = IF ggwaveFactory THEN [mount EXCEPT !.pc = "backoff"]
              ELSE AppendScript([mount EXCEPT !.removed = TRUE])
  /\ UNCHANGED <<mountFrame, ggwaveFactory>>

\* script.onload: clearTimeout(loadTimeout); resolve(), whether or not the
\* factory is defined by now
ScriptOnLoad(defined) ==
  /\ mount.script = "pending"
  /\ ggwaveFactory' = (ggwaveFactory \/ defined)
  /\ mount' = Resolved([mount EXCEPT !.script = "loaded",
                                      !.loadTimeout = ClearTimeout(@)])
  /\ UNCHANGED mountFrame

\* script.onerror
ScriptOnError ==
  /\ mount.script = "pending"
  /\ mount' = OnErrorSettles([mount EXCEPT !.script = "error",
                                            !.loadTimeout = ClearTimeout(@)])
  /\ UNCHANGED <<mountFrame, ggwaveFactory>>

\* the callback of setTimeout(..., 5000): resolve()
LoadTimeout ==
  /\ mount.loadTimeout = "armed"
  /\ mount' = Resolved([mount EXCEPT !.loadTimeout = "fired"])
  /\ UNCHANGED <<mountFrame, ggwaveFactory>>

\* while (typeof window.ggwave_factory !== 'function' && attempts < maxAttempts):
\* await new Promise(resolve => setTimeout(resolve, waitTime))
BackoffWait ==
  /\ mount.pc = "backoff"
  /\ ~ggwaveFactory
  /\ mount.attempts < maxAttempts
  /\ mount' = [mount EXCEPT !.pc = "waiting", !.waits = Append(@, mount.waitTime)]
  /\ UNCHANGED <<mountFrame, ggwaveFactory>>

\* the wait is over: waitTime *= 2; attempts++
BackoffWaitOver ==
  /\ mount.pc = "waiting"
  /\ mount' = [mount EXCEPT !.pc = "backoff", !.waitTime = NextWait(@), !.attempts = @ + 1]
  /\ UNCHANGED <<mountFrame, ggwaveFactory>>

\* the loop is left: const success = await initAudio()
SetupCallsInitAudio(rate) ==
  /\ mount.pc = "backoff"
  /\ ggwaveFactory \/ mount.attempts >= maxAttempts
  /\ mount' = [mount EXCEPT !.pc = "done", !.initAudioCalls = @ + 1]
  /\ CallInitAudio(rate)
  /\ UNCHANGED viteVars

\* the script load that initAudio awaited is over
InitAudioScriptSettled(loaded, rate) ==
  /\ ScriptSettled(0, loaded, rate)
  /\ UNCHANGED <<mount, viteVars>>

\* the factory call that initAudio awaited is over
InitAudioFactoryReturns(result) ==
  /\ FactoryReturns(0, result)
  /\ UNCHANGED <<mount, viteVars>>

NextMount ==
  \/ EarlierScript
  \/ FactoryAppears
  \/ MountEffect
  \/ Settled
  \/ \E defined \in BOOLEAN : ScriptOnLoad(defined)
  \/ ScriptOnError
  \/ LoadTimeout
  \/ BackoffWait
  \/ BackoffWaitOver
  \/ \E rate \in SampleRates : SetupCallsInitAudio(rate)
  \/ \E loaded \in BOOLEAN, rate \in SampleRates : InitAudioScriptSettled(loaded, rate)
  \/ \E result \in FactoryResults : InitAudioFactoryReturns(result)

\* the component from its construction to the end of the mount-time initAudio
SpecMount == Init /\ [][NextMount]_vars

\* the timers fire and the code between the awaits runs
FairMount ==
  /\ SpecMount
  /\ WF_vars(MountEffect)
  /\ WF_vars(Settled)
  /\ WF_vars(LoadTimeout)
  /\ WF_vars(BackoffWait)
  /\ WF_vars(BackoffWaitOver)
  /\ WF_vars(\E rate \in SampleRates : SetupCallsInitAudio(rate))

\* ------------------------------------- the encode step of the Vite variant
\* sendMessage of the Vite component from "const useSyntheticAudio" to the
\* waveform: up to four encode calls with string arguments, one more with
\* numeric arguments, and generateSyntheticAudio where they fail.

\* what one call of encode does: it returns a waveform, throws an error whose
\* text holds "Aborted()", or throws another error
EncodeAnswers == {"ok", "aborted", "error"}

\* the answers the five encode calls of one send would get
AnswerLists == [1..5 -> EncodeAnswers]

\* UseSyntheticAudio that does not read localStorage
UseSyntheticAudioNoStorage(placeholder, stored) == placeholder

\* const useSyntheticAudio = !ggwaveInstanceRef.current ||
\*   ggwaveInstanceRef.current._placeholderInstance || getItem('ggroid_use_synthetic') === 'true'
UseSyntheticAudio(placeholder, stored) == placeholder \/ stored

\* [err1, err2, err3, err4].some(e => e.toString().includes("Aborted()"))
IsWasmAbort(answers) == \E k \in 1..4 : answers[k] = "aborted"

\* the nested try blocks: the calls made, the waveform, and whether setItem is
\* reached
EncodeStep(placeholder, stored, answers) ==
  IF UseSyntheticAudio(placeholder, stored)
  THEN [encodeCalls |-> 0, waveform |-> "synthetic", setItem |-> FALSE]
  ELSE IF \E k \in 1..4 : answers[k] = "ok"
  THEN [encodeCalls |-> CHOOSE k \in 1..4 :
                          answers[k] = "ok" /\ \A j \in 1..(k - 1) : answers[j] # "ok",
        waveform |-> "encoded", setItem |-> FALSE]
  ELSE IF IsWasmAbort(answers)
  THEN [encodeCalls |-> 4, waveform |-> "synthetic", setItem |-> TRUE]
  ELSE [encodeCalls |-> 5,
        waveform |-> IF answers[5] = "ok" THEN "encoded" ELSE "synthetic",
        setItem |-> FALSE]

\* a send of the Vite variant gets to its encode step; localStorage.setItem
\* stores the item or throws, which the code catches
ViteEncode(placeholder, answers, setItemThrows) ==
  LET step == EncodeStep(placeholder, ggroid_use_synthetic, answers)
  IN  /\ viteSend' = [answers |-> answers, placeholder |-> placeholder,
                      stored |-> ggroid_use_synthetic,
                      encodeCalls |-> step.encodeCalls, waveform |-> step.waveform]
      /\ ggroid_use_synthetic' =
           (ggroid_use_synthetic \/ (step.setItem /\ ~setItemThrows))
      /\ UNCHANGED <<audioVars, audioContextRef, isPlayingRef, alerted, envVars, playVars,
                     clicks, sessionVars, mount>>

NextVite ==
  \E placeholder \in BOOLEAN, answers \in AnswerLists, setItemThrows \in BOOLEAN :
    ViteEncode(placeholder, answers, setItemThrows)

\* the Vite component under sends that get to their encode step
SpecVite == Init /\ [][NextVite]_vars

\* ----------------------------------------------------------------- claims
\* EffectSettings within the documented ranges: volume in [0,1], dutyCycle in
\* (0,1), lfoRate > 0, exaggeration in [0,1]
ValidSettings(s) ==
  /\ s.volume >= 0 /\ s.volume <= SD
  /\ s.dutyCycle > 0 /\ s.dutyCycle < SD
  /\ s.lfoRate > 0
  /\ s.exaggeration >= 0 /\ s.exaggeration <= SD
  /\ s.effect \in EffectKinds

AllZero(buf) == \A j \in 1..Len(buf) : buf[j] = 0

\* volume rounded to the nearest sample value a Float32Array can hold
RoundedVolume(settings) == RoundDiv(settings.volume * FX, SD)

\* the send is between applyDroidEffects and addDroidPersonality
AtProcessed == pc = "processed"

\* C1: for every input buffer and every valid settings object the buffer
\* applyDroidEffects returns is as long as its input.
ProcessedLengthEqualsInput ==
  (AtProcessed /\ ValidSettings(runSettings))
    => Len(heap[procRef]) = Len(heap[floatRef])

ProcessedLengthWitness ==
  /\ AtProcessed
  /\ ValidSettings(runSettings)
  /\ Len(heap[floatRef]) >= 2
  /\ procRef # floatRef
  /\ Len(heap[procRef]) = Len(heap[floatRef])

\* C2 as stated: for an input that is not all-zero and valid settings, every
\* output sample of applyDroidEffects has absolute value at most volume.
PeakAtMostVolume ==
  (AtProcessed /\ ValidSettings(runSettings) /\ ~AllZero(heap[floatRef]))
    => \A j \in 1..Len(heap[procRef]) :
         Abs(heap[procRef][j]) * SD <= runSettings.volume * FX

\* C2 amended: for an input that is not all-zero and valid settings, every
\* output sample has absolute value at most volume rounded to the nearest
\* value the output buffer can hold (volume plus at most half a unit).
PeakAtMostRoundedVolume ==
  (AtProcessed /\ ValidSettings(runSettings) /\ ~AllZero(heap[floatRef]))
    => \A j \in 1..Len(heap[procRef]) :
         Abs(heap[procRef][j]) <= RoundedVolume(runSettings)

\* a normalised peak that sits at the rounded volume, above the volume itself
PeakAboveVolumeWitness ==
  /\ AtProcessed
  /\ ValidSettings(runSettings)
  /\ ~AllZero(heap[floatRef])
  /\ \E j \in 1..Len(heap[procRef]) :
       /\ Abs(heap[procRef][j]) = RoundedVolume(runSettings)
       /\ Abs(heap[procRef][j]) * SD > runSettings.volume * FX

\* C3: an all-zero input buffer gives an all-zero output buffer for every
\* combination of settings, in the Next.js component and in the plain-JS variant.
AllZeroInAllZeroOut ==
  (AtProcessed /\ AllZero(heap[floatRef]))
    => (AllZero(heap[procRef]) /\ AllZero(plainOut))

GuardedNormalisation ==
  (AtProcessed /\ ValidSettings(runSettings))
    => LET processed == Modulate(heap[floatRef], runSettings, audioContextRef.sampleRate)
           peak == MaxAmp(processed)
           out == heap[procRef]
       IN  /\ \A j \in 1..Len(out) : ~IsNaN(out[j]) /\ Abs(out[j]) <= FX
           /\ peak * 10000 <= FX
                => out = [j \in 1..Len(processed) |->
                            Scale(processed[j], runSettings.volume, SD)]
           /\ peak * 10000 > FX
                => \E j \in 1..Len(out) : Abs(out[j]) = RoundedVolume(runSettings)
           /\ viteOut = out

\* a buffer that is near-silent but not silent went through the guard
NearSilentWitness ==
  /\ AtProcessed
  /\ ValidSettings(runSettings)
  /\ LET peak == MaxAmp(Modulate(heap[floatRef], runSettings, audioContextRef.sampleRate))
     IN  peak > 0 /\ peak * 10000 <= FX
  /\ \E j \in 1..Len(heap[procRef]) : heap[procRef][j] # 0

\* C7: with a duty cycle (or a sample rate) of 0 or below the pipeline fails
\* before any numeric work: the send never holds a waveshaped, normalised or
\* mixed sample.
InvalidConfigurationFailsFast ==
  (runSettings.dutyCycle <= 0 \/ (audioContextRef.present /\ audioContextRef.sampleRate <= 0))
    => ~(pc \in {"processed", "mixed"} /\ Len(heap[procRef]) > 0)

\* C8: a zero-length waveform is not an error: applyDroidEffects returns a
\* zero-length buffer and the send goes on, for every effect kind, in the
\* Next.js component and in the plain-JS variant.
EmptyWaveformIsNoError ==
  [][(pc = "converted" /\ waveform = <<>>)
       => (/\ pc' = "processed"
           /\ ~alerted'
           /\ heap'[procRef'] = <<>>
           /\ plainOut' = <<>>)]_vars

EmptyWaveformWitness ==
  /\ AtProcessed
  /\ waveform = <<>>
  /\ runSettings.effect = "question"
  /\ heap[procRef] = <<>>
  /\ ~alerted

\* C9: applyDroidEffects and addDroidPersonality leave the buffer passed in
\* and the settings object as they were.
NoInputMutation ==
  [][/\ (pc = "converted" /\ pc' = "processed")
          => (heap'[floatRef] = heap[floatRef] /\ runSettings' = runSettings)
     /\ (pc = "processed" /\ pc' = "mixed")
          => (/\ heap'[procRef] = heap[procRef]
              /\ heap'[floatRef] = heap[floatRef]
              /\ runSettings' = runSettings)]_vars

\* both stages have run, each into a buffer of its own
NoInputMutationWitness ==
  /\ pc = "mixed"
  /\ runSettings.addPersonality
  /\ Len(heap) = 3
  /\ Len(waveform) >= 2
  /\ heap[floatRef] = ToFloat(waveform)
  /\ heap[2] # heap[floatRef]
  /\ procRef = 3

\* C10: with addPersonality the mixed buffer has floor(0.5 sampleRate)
\* + 2 floor(0.1 sampleRate) + len(payload) + floor(0.3 sampleRate) samples;
\* without it the payload is returned unchanged.
MixedLength ==
  pc = "mixed"
    => LET sampleRate == audioContextRef.sampleRate
           payload == heap[2]
       IN  IF runSettings.addPersonality
           THEN /\ Len(generateR2D2Personality(TRUE, 5, audioContextRef))
                     = (5 * sampleRate) \div 10
                /\ Len(generateR2D2Personality(FALSE, 3, audioContextRef))
                     = (3 * sampleRate) \div 10
                /\ Len(heap[procRef])
                     = (5 * sampleRate) \div 10 + 2 * (sampleRate \div 10)
                         + Len(payload) + (3 * sampleRate) \div 10
           ELSE /\ procRef = 2
                /\ addDroidPersonality(payload, runSettings, audioContextRef) = payload

\* a payload mixed at a sample rate at which the three floors round down
MixedLengthWitness ==
  /\ pc = "mixed"
  /\ runSettings.addPersonality
  /\ audioContextRef.sampleRate % 10 # 0
  /\ Len(heap[2]) >= 1
  /\ Len(heap[procRef]) > Len(heap[2])

\* C11: with addPersonality the mixed buffer is, in order, the intro samples
\* each multiplied by volume, pauseSamples zeros, the payload copied verbatim,
\* pauseSamples zeros, and the outro samples each multiplied by volume.
MixedLayout ==
  (pc = "mixed" /\ runSettings.addPersonality)
    => LET intro == generateR2D2Personality(TRUE, 5, audioContextRef)
           outro == generateR2D2Personality(FALSE, 3, audioContextRef)
           pause == [k \in 1..(audioContextRef.sampleRate \div 10) |-> 0]
           times(b) == [k \in 1..Len(b) |-> Scale(b[k], runSettings.volume, SD)]
       IN  heap[procRef] = times(intro) \o pause \o heap[2] \o pause \o times(outro)

\* a payload with a non-zero sample was mixed at a volume below 1
MixedLayoutWitness ==
  /\ pc = "mixed"
  /\ runSettings.addPersonality
  /\ runSettings.volume < SD
  /\ procRef = 3
  /\ Len(heap[2]) >= 2
  /\ \E k \in 1..Len(heap[2]) : heap[2][k] # 0
  /\ \E k \in 1..Len(heap[3]) : Abs(heap[3][k]) = RoundedVolume(runSettings)

\* the little-endian number in the bytes at offset .. offset + 3 (or + 1)
Uint32At(bytes, offset) ==
  bytes[offset + 1] + 256 * bytes[offset + 2] + 65536 * bytes[offset + 3]
    + 16777216 * bytes[offset + 4]

Uint16At(bytes, offset) == bytes[offset + 1] + 256 * bytes[offset + 2]

Returned(fn) == call.fn = fn /\ call.done

\* C12: createWavHeader(N, 1, sampleRate, 16) returns 44 bytes: 'RIFF', 32 + 2N,
\* 'WAVE', 'fmt ', 16, format 1, 1 channel, sampleRate, byte rate 2 sampleRate,
\* block align 2, 16 bits per sample, 'data', 2N, the numbers little-endian
\* (N = 1000 at 44100 Hz: 2032, 1, 44100, 2000).
WavHeaderLayout ==
  Returned("createWavHeader")
    => LET h == call.result
           N == call.args[1]
           sampleRate == call.args[3]
       IN  /\ Len(h) = 44
           /\ \A k \in 1..Len(h) : h[k] \in 0..255
           /\ SubSeq(h, 1, 4) = <<82, 73, 70, 70>>
           /\ Uint32At(h, 4) = 32 + 2 * N
           /\ SubSeq(h, 9, 12) = <<87, 65, 86, 69>>
           /\ SubSeq(h, 13, 16) = <<102, 109, 116, 32>>
           /\ Uint32At(h, 16) = 16
           /\ Uint16At(h, 20) = 1
           /\ Uint16At(h, 22) = 1
           /\ Uint32At(h, 24) = sampleRate
           /\ Uint32At(h, 28) = 2 * sampleRate
           /\ Uint16At(h, 32) = 2
           /\ Uint16At(h, 34) = 16
           /\ SubSeq(h, 37, 40) = <<100, 97, 116, 97>>
           /\ Uint32At(h, 40) = 2 * N
           /\ (N = 1000 /\ sampleRate = 44100)
                => /\ SubSeq(h, 5, 8) = <<240, 7, 0, 0>>
                   /\ SubSeq(h, 23, 24) = <<1, 0>>
                   /\ SubSeq(h, 25, 28) = <<68, 172, 0, 0>>
                   /\ SubSeq(h, 41, 44) = <<208, 7, 0, 0>>

\* the header for 1000 samples at 44100 Hz
WavHeaderWitness ==
  /\ Returned("createWavHeader")
  /\ call.args = <<1000, 1, 44100, 16>>
  /\ Len(call.result) = 44

\* C13: the quantisation of a float sample x is clamp(x, -1, 1) * 32767 with
\* the fraction dropped: 32767 for x >= 1, -32767 for x <= -1, and otherwise
\* the integer next to x * 32767 on the side of zero.
QuantiseClampsAndTruncates ==
  (Returned("quantise") /\ ~IsNaN(call.args[1]))
    => LET x == call.args[1]
           q == call.result[1]
       IN  /\ x >= FX => q = 32767
           /\ x <= -FX => q = -32767
           /\ (x > -FX /\ x < FX)
                => /\ Abs(q) * FX <= Abs(x) * 32767
                   /\ Abs(x) * 32767 < (Abs(q) + 1) * FX
                   /\ q # 0 => Sgn(q) = Sgn(x)

\* a product with a fraction above one half was truncated, and 1.5 was clamped
QuantiseWitness ==
  /\ Returned("quantise")
  /\ \/ call.args[1] = 3 /\ call.result[1] = 2
     \/ call.args[1] = 49152 /\ call.result[1] = 32767

\* C16: the waveshaper maps s with threshold d in (0,1) to 1.0 if s > d, to
\* -1.0 if s < -d and to s/d in between; for s in [-1,1] the result is in
\* [-1,1], has the sign of s, is odd-symmetric in s and non-decreasing in s.
ShaperContract ==
  Returned("dutyCycle")
    => LET x == call.args[1]
           d == call.args[2]
           y == call.result[1]
       IN  /\ x * SD > d * FX => y = FX
           /\ x * SD < -(d * FX) => y = -FX
           /\ (x * SD <= d * FX /\ x * SD >= -(d * FX)) => 2 * Abs(y * d - x * SD) <= d
           /\ y >= -FX /\ y <= FX
           /\ (x > 0 => y > 0) /\ (x < 0 => y < 0) /\ (x = 0 => y = 0)
           /\ DutyShape(-x, d) = -y
           /\ \A x2 \in ShaperSamples : x2 <= x => DutyShape(x2, d) <= y

\* a sample inside the threshold was divided by it
ShaperWitness ==
  /\ Returned("dutyCycle")
  /\ call.args = <<-2048, 8>>
  /\ call.result[1] = -5120

\* C17: generateR2D2Personality returns floor(duration sampleRate) samples;
\* with fadeLen = floor(0.05 numSamples), sample i < fadeLen and sample
\* numSamples - 1 - i have magnitude i / fadeLen, so the first and the last
\* sample are 0 and the ramps rise at the start and fall at the end; the two
\* fades do not overlap, every sample between them is +1 or -1, and every
\* sample lies in [-1, 1].
PersonalityEnvelope ==
  Returned("generateR2D2Personality")
    => LET b == call.result
           numSamples == (call.args[2] * call.args[3]) \div 10
           fadeLen == (5 * numSamples) \div 100
       IN  /\ Len(b) = numSamples
           /\ 2 * fadeLen <= numSamples
           /\ \A i \in 0..(fadeLen - 1) :
                /\ Abs(b[i + 1]) = RoundDiv(i * FX, fadeLen)
                /\ Abs(b[numSamples - i]) = RoundDiv(i * FX, fadeLen)
           /\ b[1] = 0 /\ b[numSamples] = 0
           /\ \A i \in 1..(fadeLen - 1) :
                /\ Abs(b[i + 1]) > Abs(b[i])
                /\ Abs(b[numSamples - i]) > Abs(b[numSamples - i + 1])
           /\ \A k \in (fadeLen + 1)..(numSamples - fadeLen) : Abs(b[k]) = FX
           /\ \A k \in 1..numSamples : b[k] >= -FX /\ b[k] <= FX

\* a sound whose fades are several samples long
PersonalityEnvelopeWitness ==
  /\ Returned("generateR2D2Personality")
  /\ Len(call.result) = 100
  /\ Abs(call.result[2]) > 0
  /\ Abs(call.result[2]) < Abs(call.result[5])
  /\ Abs(call.result[99]) = Abs(call.result[2])

\* the stages in their order, as one function of the encoder's waveform
Composed(w, settings, ctx) ==
  LET processed == applyDroidEffects(ToFloat(w), settings, ctx)
  IN  IF settings.addPersonality THEN addDroidPersonality(processed, settings, ctx)
      ELSE processed

\* C14: in every send and every save the stages run in this order on one
\* waveform: int16 -> float, applyDroidEffects, addDroidPersonality (when
\* addPersonality is set), and only then playback (send) or quantisation and
\* WAV encoding (save); the intro and the outro never pass through the effects.
PipelineOrder ==
  [][/\ (pc' # pc /\ pc' = "converted")
          => (pc = "idle" /\ heap'[floatRef'] = ToFloat(waveform'))
     /\ (pc' # pc /\ pc' = "processed")
          => (/\ pc = "converted"
              /\ heap'[procRef'] = applyDroidEffects(ToFloat(waveform), runSettings,
                                                      audioContextRef))
     /\ (pc' # pc /\ pc' = "mixed")
          => (/\ pc = "processed"
              /\ heap'[procRef'] = Composed(waveform, runSettings, audioContextRef))
     /\ (isPlayingRef' /\ ~isPlayingRef)
          => (/\ pc = "mixed"
              /\ handler = "sendMessage"
              /\ prev'.out = Composed(waveform, runSettings, audioContextRef))
     /\ (pc' # pc /\ pc' = "encoded")
          => (/\ pc = "mixed"
              /\ handler = "saveAsWav"
              /\ pcmData' = QuantiseAll(Composed(waveform, runSettings, audioContextRef))
              /\ Len(wavHeader') = 44)
     /\ prev'.set /\ prev' # prev => pc = "mixed"
     /\ pcmData' # <<>> /\ pcmData' # pcmData => pc = "mixed"]_vars

\* a save has quantised a waveform that went through effects and personality
PipelineOrderWitness ==
  /\ pc = "encoded"
  /\ handler = "saveAsWav"
  /\ runSettings.addPersonality
  /\ Len(waveform) >= 2
  /\ Len(heap) = 3
  /\ Len(pcmData) = Len(heap[3])
  /\ heap[2] # heap[1]
  /\ \E k \in 1..Len(pcmData) : pcmData[k] # 0

\* C15: whenever a send cannot obtain the encoder (the script does not load,
\* every factory call fails, no encode function is found) or every encode
\* call throws, a synthetic waveform takes the encoder's place and the send
\* goes on to play a sound instead of ending in an alert.
SendFallsBackToSynthetic ==
  (/\ encoder.handler = "sendMessage"
   /\ encoder.outcome \in {"noScript", "noFactory", "noEncode", "encodeThrows"})
    => /\ ~alerted
       /\ pc # "idle"
            => \E n \in TextLengths : waveform = SyntheticBeep(n, audioContextRef.sampleRate)

\* C18: for the same buffer, settings and sample rate the plain-JS variant, the
\* Next.js component and the Vite component return the same samples.
VariantsAgree ==
  AtProcessed => (plainOut = heap[procRef] /\ viteOut = heap[procRef])

\* the effect kinds that modulate the neutral LFO
ModulatingKinds == EffectKinds \ {"normal", "random"}

\* C19 as stated: with exaggeration 0 every effect kind returns the samples
\* of effect "normal".
ExaggerationZeroIsNormal ==
  (AtProcessed /\ runSettings.exaggeration = 0 /\ runSettings.effect \in ModulatingKinds)
    => heap[procRef] = applyDroidEffects(heap[floatRef],
                         [runSettings EXCEPT !.effect = "normal"], audioContextRef)

\* C19 amended: with exaggeration 0 every effect kind other than blatt returns
\* the samples of effect "normal"; the factor of blatt is then the constant 0.8.
ExaggerationZeroIsNormalExceptBlatt ==
  (AtProcessed /\ runSettings.exaggeration = 0 /\ runSettings.effect \in ModulatingKinds)
    => IF runSettings.effect = "blatt"
       THEN \A i \in 0..(Len(heap[floatRef]) - 1) :
              EffectLfo(runSettings, i, Len(heap[floatRef]), audioContextRef.sampleRate)
                = RoundDiv(8 * FX, 10)
       ELSE heap[procRef] = applyDroidEffects(heap[floatRef],
                              [runSettings EXCEPT !.effect = "normal"], audioContextRef)

\* a trill with exaggeration 0 has processed two non-zero samples
ExaggerationZeroWitness ==
  /\ AtProcessed
  /\ runSettings.exaggeration = 0
  /\ runSettings.effect = "trill"
  /\ Len(heap[floatRef]) >= 2
  /\ \A j \in 1..Len(heap[floatRef]) : heap[floatRef][j] # 0
  /\ heap[procRef] # heap[floatRef]

\* the run's settings are valid but for a volume that may exceed 1
ValidButVolume(s) == ValidSettings([s EXCEPT !.volume = SD])

\* C20 as stated: for volume in [0,1] and valid settings every sample of the
\* pipeline's output lies in [-volume, volume].
PipelineOutputWithinVolume ==
  (pc = "mixed" /\ ValidSettings(runSettings))
    => \A k \in 1..Len(heap[procRef]) :
         Abs(heap[procRef][k]) * SD <= runSettings.volume * FX

\* C20 amended: for volume in [0,1] and valid settings every sample of the
\* pipeline's output lies within the volume rounded to the nearest value the
\* buffer can hold, which is at most 1, so the clamp of the quantisation
\* changes no value and every quantised sample lies in [-32767, 32767]; for
\* volume > 1 the louder samples pass through the processor and the mixer and
\* only the clamp of the quantisation limits them.
PipelineOutputWithinRoundedVolume ==
  (pc \in {"mixed", "encoded"} /\ ValidButVolume(runSettings))
    => LET out == heap[procRef]
       IN  /\ \A k \in 1..Len(out) :
                ~IsNaN(out[k]) /\ Abs(out[k]) <= RoundedVolume(runSettings)
           /\ runSettings.volume <= SD => RoundedVolume(runSettings) <= FX
           /\ (runSettings.volume > SD /\ runSettings.addPersonality)
                => \E k \in 1..Len(out) :
                     Abs(out[k]) = RoundedVolume(runSettings) /\ Abs(out[k]) > FX
           /\ pc = "encoded"
                => /\ Len(pcmData) = Len(out)
                   /\ \A k \in 1..Len(out) :
                        /\ pcmData[k] >= -32767 /\ pcmData[k] <= 32767
                        /\ Abs(out[k]) <= FX
                             => pcmData[k] = Sgn(out[k]) * ((Abs(out[k]) * 32767) \div FX)
                        /\ Abs(out[k]) > FX => pcmData[k] = Sgn(out[k]) * 32767

\* a save at volume 1.5: a sample above 1 reached the quantisation and was clamped
LoudWitness ==
  /\ pc = "encoded"
  /\ runSettings.volume > SD
  /\ \E k \in 1..Len(pcmData) : heap[procRef][k] > FX /\ pcmData[k] = 32767
  /\ \E k \in 1..Len(pcmData) : heap[procRef][k] < -FX /\ pcmData[k] = -32767

\* a click has just been handled and the script did not load in it
LoadFailed == clicks' = clicks + 1 /\ encoder'.outcome = "noScript"

\* C21: when window.ggwave_factory is still not a function after the script
\* load of sendMessage or saveAsWav, the handler alerts and returns: it creates
\* no audio context, encodes nothing, plays and downloads nothing and leaves
\* receivedMessage, the playing flag and the animation flags as they were.
LoadFailureAborts ==
  [][LoadFailed
       => /\ alerted'
          /\ ~ggwaveFactory'
          /\ audioContextRef' = audioContextRef
          /\ ggwaveInstanceRef' = ggwaveInstanceRef
          /\ messageToSend' = messageToSend
          /\ sounds' = sounds
          /\ downloads' = downloads
          /\ receivedMessage' = receivedMessage
          /\ isPlayingRef' = isPlayingRef
          /\ r2d2AnimatedRef' = r2d2AnimatedRef
          /\ r2d2Classes' = r2d2Classes]_vars

\* a send and then a save both ended in the alert of the failed load
LoadFailureWitness ==
  /\ clicks = 2
  /\ encoder = [handler |-> "saveAsWav", outcome |-> "noScript"]
  /\ alerted
  /\ ~audioContextRef.present
  /\ downloads = 0
  /\ sounds = <<>>

\* a click on one of the two send buttons has just been handled
SendHandled == clicks' = clicks + 1 /\ encoder'.handler = "sendMessage"

\* C25: a test send plays its sound and leaves receivedMessage unchanged; a
\* normal send that reaches playback sets receivedMessage to the text that was
\* encoded; a send that fails before playback leaves receivedMessage unchanged,
\* and nothing else changes it.
ReceivedMessageTracksSends ==
  [][/\ (SendHandled /\ Len(sounds') > Len(sounds))
          => IF messageToSend' = TestMessage
             THEN receivedMessage' = receivedMessage
             ELSE receivedMessage' = messageToSend' /\ messageToSend' \in Messages
     /\ (SendHandled /\ Len(sounds') <= Len(sounds))
          => (alerted' /\ receivedMessage' = receivedMessage)
     /\ ~SendHandled => receivedMessage' = receivedMessage]_vars

\* a test send is playing and the text of the send before it is still shown
ReceivedMessageWitness ==
  /\ clicks = 2
  /\ encoder.handler = "sendMessage"
  /\ ~alerted
  /\ messageToSend = TestMessage
  /\ receivedMessage = "yo"
  /\ Len(sounds) = 2
  /\ \A i \in 1..2 : ~sounds[i].ended

\* C26: isPlaying is true exactly while at least one started source has not
\* fired onended, also when sends overlap and when source.start() throws.
PlayingFlagTracksSources ==
  isPlayingRef <=> (\E i \in 1..Len(sounds) : ~sounds[i].ended)

\* C27: once animateR2D2 has added the classes, they are removed again and the
\* animated flag is false again some time after the sound, whether the sound
\* is shorter or longer than the 2 s timer.
AnimationEventuallyReset ==
  r2d2Classes ~> (~r2d2Classes /\ ~r2d2AnimatedRef)

EncoderIsSingleton ==
  [][ggwaveInstanceRef # "none"
       => (initCalls' = initCalls /\ ggwaveInstanceRef' = ggwaveInstanceRef)]_vars

\* C23: the script loader of the mount never rejects: whichever of onload,
\* onerror and the 5 s timer comes first, loadScript resolves, and setupAudio
\* goes on to call initAudio, once.
MountLoaderNeverRejects ==
  /\ [](mount.initAudioCalls <= 1)
  /\ [](mount.pc \in {"unmounted", "settling", "loading", "backoff", "waiting", "done"})
  /\ <>(mount.initAudioCalls = 1 /\ tasks[0].kind = "initAudio")

\* initAudio was called after the script failed to load
MountLoaderWitness ==
  /\ mount.pc = "done"
  /\ mount.script = "error"
  /\ mount.loadTimeout = "cleared"
  /\ mount.initAudioCalls = 1
  /\ tasks[0].kind = "initAudio"

\* C24: setupAudio waits for the factory at most 3 times, 1000, 2000 and
\* 4000 ms in that order; it starts no wait once window.ggwave_factory is a
\* function, and after the third wait it calls initAudio even if the factory
\* is still missing.
BackoffSchedule ==
  [][/\ \E n \in 0..maxAttempts : mount'.waits = SubSeq(<<1000, 2000, 4000>>, 1, n)
     /\ mount'.waits # mount.waits => ~ggwaveFactory
     /\ mount'.initAudioCalls # mount.initAudioCalls
          => (ggwaveFactory \/ mount.waits = <<1000, 2000, 4000>>)
     /\ (mount.pc = "backoff" /\ mount.attempts = maxAttempts /\ mount'.pc # "backoff")
          => mount'.initAudioCalls = 1]_vars

\* initAudio was called after three waits with the factory still missing
BackoffWitness ==
  /\ mount.pc = "done"
  /\ mount.waits = <<1000, 2000, 4000>>
  /\ mount.initAudioCalls = 1
  /\ tasks[0].pc = "loading"
  /\ ~ggwaveFactory

\* a send of the Vite variant has just done its encode step
ViteSent == viteSend' # viteSend \/ ggroid_use_synthetic' # ggroid_use_synthetic

\* in the send just done every string-argument encode call threw "Aborted()"
AllAborted == \A k \in 1..4 : viteSend'.answers[k] = "aborted"

\* in the send just done encode was called and no call threw "Aborted()"
NoneAborted ==
  \A k \in 1..viteSend'.encodeCalls : viteSend'.answers[k] # "aborted"

SendWaveform ==
  IF encoder.outcome \in {"encoded", "installed"} THEN waveform
  ELSE LET n == CHOOSE n \in TextLengths :
                  SyntheticLength(n, audioContextRef.sampleRate) = Len(waveform)
       IN  SyntheticBeep(n, audioContextRef.sampleRate)

\* C30: for the same message, settings and encoder behaviour, also an encoder
\* that fails on every call, the int16 samples saveAsWav writes are the
\* quantisation of the float samples sendMessage hands to the sink.
SaveMatchesSend ==
  (pc = "encoded" /\ handler = "saveAsWav")
    => pcmData = QuantiseAll(Composed(SendWaveform, runSettings, audioContextRef))
====
